---- MODULE Spec2Model ----
(***************************************************************************)
(* CompatDbClient (src/src/maintenance/memory_maintenance.py): batched     *)
(* retention cleanup (cleanup_old_records) and per-user erasure            *)
(* (forget_user) over a relational store.  The store is the set `rows`;    *)
(* every SQL statement is one atomic step of the store, and a batch        *)
(* UPDATE/DELETE together with the commit that follows it is one step.     *)
(***************************************************************************)
EXTENDS Integers, FiniteSets, Sequences, TLC

\* ------------------------------------------------------------------ bounds
MaxTime == 1          \* the clock runs over 0..MaxTime
MaxRows == 3          \* rows ever inserted (ids 1..MaxRows, never reused)
MaxDays == 1          \* days_old ranges over 0..MaxDays
MaxBatch == 2         \* largest batch_size tried
MaxCalls == 2         \* calls one client makes when it is the only one
MaxMixedRows == 2     \* rows inserted while forget_user and a cleanup overlap
MaxOverlap == 1       \* calls each client makes when two run side by side
MaxRetire == 1        \* rows other clients soft-delete
MaxMissing == 1       \* tables of the list without a user_id column
MaxFaults == 1        \* statements of one forget_user call the store fails
MaxLen == 2           \* longest list given to process_data
MaxStr == 2           \* longest text among the items
MaxInt == 1           \* largest int among the items

\* ------------------------------------------------------------- parameters
NULL == -1            \* SQL NULL in the deleted_at column (times are >= 0)

Callers == {"c1", "c2"}          \* clients calling cleanup_old_records
Forgetters == {"f1"}             \* clients calling forget_user
Procs == Callers \cup Forgetters

tables_to_clean ==
    << "user_sessions", "user_preferences", "user_activity_logs",
       "user_conversations", "user_memory", "user_embeddings" >>

Tables == { tables_to_clean[i] : i \in 1..Len(tables_to_clean) }
Users == {"u1", "u2"}

VARIABLES
    now,               \* datetime.utcnow()
    rows,              \* committed rows of all tables
    nextId,            \* next primary key
    retired,           \* rows other clients have soft-deleted
    no_user_id,        \* tables without a user_id column
    checked_out,       \* connections checked out of the pool
    pc,                \* position of each client in its call
    table_name, cutoff_date, batch_size, use_soft_delete,
    total_count, total_processed,
    outcome,           \* "none" | "returned" | "raised"
    calls,             \* calls the client has started
    user_id, tblIdx, records_count, total_deleted,
    stats,             \* the report forget_user builds
    aborted,           \* the connection's transaction is in the failed state
    result,            \* what execute_sql or health_check returned
    data, items_out,   \* JOJIAICore.process_data: its argument and its list
    core_outcome,      \* "none" | "returned" | "raised" (ValueError)
    \* history (not program state)
    touched,           \* ids whose row the call's statements affected
    batches,           \* row-affecting batches the call executed
    maxBatch,          \* largest rowcount of one batch of the call
    rowsAtStart,       \* rows when the call started
    writers,           \* who else wrote rows since the call started
    statements,        \* UPDATE/DELETE statements the call issued
    recounts,          \* times the count was taken
    failed,            \* tables of the call whose processing raised
    faults,            \* statements of the call the store failed by itself
    lastRun,           \* the last undisturbed cleanup, if no write followed it
    prevRun            \* lastRun when the call started

cleanupVars == << table_name, cutoff_date, batch_size, use_soft_delete,
                  total_count, total_processed >>
forgetVars == << user_id, tblIdx, records_count, total_deleted, stats,
                aborted, failed >>
histVars == << faults, touched, batches, maxBatch, rowsAtStart, writers,
               statements,
               recounts, lastRun, prevRun >>
coreVars == << data, items_out, core_outcome >>
extraVars == << result, coreVars >>
vars == << now, rows, nextId, retired, no_user_id, checked_out, pc, outcome,
           calls, cleanupVars, forgetVars, histVars, extraVars >>

\* ---------------------------------------------------------------- helpers
Min(a, b) == IF a < b THEN a ELSE b

Ids(R) == { r.id : r \in R }

InTable(R, t) == { r \in R : r.tbl = t }

CountDeletedOnly(R, t, cutoff) ==
    Cardinality({ r \in InTable(R, t) :
                    /\ r.created_at < cutoff
                    /\ r.deleted_at # NULL /\ r.deleted_at < cutoff })

\* SELECT COUNT(*) ... WHERE created_at < :cutoff_date
\*   AND (deleted_at IS NULL OR deleted_at < :cutoff_date)
CountEligible(R, t, cutoff) ==
    Cardinality({ r \in InTable(R, t) :
                    /\ r.created_at < cutoff
                    /\ (r.deleted_at = NULL
                          \/ (r.deleted_at # NULL /\ r.deleted_at < cutoff)) })

SoftEligibleAny(R, t, cutoff) ==
    { r \in InTable(R, t) : r.created_at < cutoff }

\* SELECT id ... WHERE created_at < :cutoff_date AND deleted_at IS NULL
SoftEligible(R, t, cutoff) ==
    { r \in InTable(R, t) : r.created_at < cutoff /\ r.deleted_at = NULL }

\* SELECT id ... WHERE created_at < :cutoff_date        (hard delete)
HardEligible(R, t, cutoff) ==
    { r \in InTable(R, t) : r.created_at < cutoff }

LimitAll(S, n) == { S }

\* LIMIT :batch_size without ORDER BY: any n of the candidates; LIMIT 0 is
\* empty; a negative LIMIT is "no limit" where the store accepts it (where
\* it does not, the statement raises: see CleanupFail).
Limit(S, n) ==
    IF n < 0 THEN { S }
    ELSE { T \in SUBSET S : Cardinality(T) = Min(n, Cardinality(S)) }

HardDeleteInstead(R, S, t) == R \ S

\* UPDATE ... SET deleted_at = :current_time WHERE id IN (...)
SoftDelete(R, S, t) ==
    (R \ S) \cup { [r EXCEPT !.deleted_at = t] : r \in S }

\* DELETE FROM ... WHERE id IN (...)
HardDelete(R, S) == R \ S

LoopAlways(processed, count) == TRUE

\* while total_processed < total_count
LoopContinues(processed, count) == processed < count

\* a client of the store other than the modelled ones
Ext == << "ext", 0 >>

\* every client with a call in progress or finished, other than p, sees the
\* write of p's current call
NoteWrite(p, S) ==
    IF S = {} THEN writers
    ELSE [q \in Procs |->
            IF q # p /\ pc[q] # "idle"
            THEN writers[q] \cup {<< p, calls[p] >>} ELSE writers[q]]

NoRun == [tbl |-> "none"]

CloseLeaks(n) == n

\* finally: connection.close() returns the connection to the pool
Close(n) == n - 1

NoResult == [kind |-> "none"]

\* stats = {"user_id": ..., "tables_processed": [], "total_records_affected": 0}
NoStats == [tables_processed |-> << >>, total_records_affected |-> 0,
            success |-> "unset"]

ThisRun(p) ==
    [tbl |-> table_name[p], cutoff |-> cutoff_date[p],
     batch |-> batch_size[p], soft |-> use_soft_delete[p]]

\* ------------------------------------------------------------------- Init
InitState ==
    /\ now = 0
    /\ rows = {}
    /\ nextId = 1
    /\ retired = 0
    /\ checked_out = 0
    /\ pc = [p \in Procs |-> "idle"]
    /\ table_name = [p \in Procs |-> "none"]
    /\ cutoff_date = [p \in Procs |-> 0]
    /\ batch_size = [p \in Procs |-> 1]
    /\ use_soft_delete = [p \in Procs |-> TRUE]
    /\ total_count = [p \in Procs |-> 0]
    /\ total_processed = [p \in Procs |-> 0]
    /\ outcome = [p \in Procs |-> "none"]
    /\ calls = [p \in Procs |-> 0]
    /\ user_id = [p \in Procs |-> "none"]
    /\ tblIdx = [p \in Procs |-> 0]
    /\ records_count = [p \in Procs |-> 0]
    /\ total_deleted = [p \in Procs |-> 0]
    /\ stats = [p \in Procs |-> NoStats]
    /\ aborted = [p \in Procs |-> FALSE]
    /\ result = [p \in Procs |-> NoResult]
    /\ items_out = << >>
    /\ core_outcome = "none"
    /\ failed = [p \in Procs |-> {}]
    /\ faults = [p \in Procs |-> 0]
    /\ touched = [p \in Procs |-> {}]
    /\ batches = [p \in Procs |-> 0]
    /\ maxBatch = [p \in Procs |-> 0]
    /\ rowsAtStart = [p \in Procs |-> {}]
    /\ writers = [p \in Procs |-> {}]
    /\ statements = [p \in Procs |-> 0]
    /\ recounts = [p \in Procs |-> 0]
    /\ lastRun = NoRun
    /\ prevRun = [p \in Procs |-> NoRun]

\* every table of the list has a user_id column
Init == InitState /\ no_user_id = {} /\ data = << >>

\* at most MaxMissing tables of the list lack the user_id column
InitForget ==
    /\ InitState
    /\ no_user_id \in { T \in SUBSET Tables : Cardinality(T) <= MaxMissing }
    /\ data = << >>

\* ------------------------------------------------------------ environment
\* the clock advances
Tick ==
    /\ now < MaxTime
    /\ now' = now + 1
    /\ UNCHANGED << forgetVars, retired, rows, nextId, no_user_id,
                    checked_out, pc, outcome,
                    calls, cleanupVars, histVars >>
    /\ UNCHANGED extraVars

\* another client of the store inserts a live row
Insert(tbls, users, limit) ==
    /\ nextId <= limit
    /\ \E t \in tbls, c \in 0..now :
       \E u \in IF t \in no_user_id THEN {"none"} ELSE users :
          rows' = rows \cup { [id |-> nextId, tbl |-> t, created_at |-> c,
                               deleted_at |-> NULL, user_id |-> u] }
    /\ nextId' = nextId + 1
    /\ writers' = [q \in Procs |->
                     IF pc[q] # "idle" THEN writers[q] \cup {Ext}
                     ELSE writers[q]]
    /\ lastRun' = NoRun
    /\ UNCHANGED << forgetVars, faults, retired, now, no_user_id, checked_out,
                    pc, outcome, calls,
                    cleanupVars, touched, batches, maxBatch, rowsAtStart,
                    statements, recounts, prevRun >>
    /\ UNCHANGED extraVars

\* another client of the store soft-deletes a live row
Retire(tbls) ==
    /\ retired < MaxRetire
    /\ retired' = retired + 1
    /\ \E r \in { x \in rows : x.tbl \in tbls /\ x.deleted_at = NULL } :
          rows' = (rows \ {r}) \cup { [r EXCEPT !.deleted_at = now] }
    /\ writers' = [q \in Procs |->
                     IF pc[q] # "idle" THEN writers[q] \cup {Ext}
                     ELSE writers[q]]
    /\ lastRun' = NoRun
    /\ UNCHANGED << forgetVars, faults, now, nextId, no_user_id, checked_out,
                    pc,
                    outcome, calls, cleanupVars, touched, batches, maxBatch,
                    rowsAtStart, statements, recounts, prevRun >>
    /\ UNCHANGED extraVars

\* ---------------------------------------------------- cleanup_old_records
\* cutoff_date = utcnow() - timedelta(days=days_old); total_processed = 0;
\* the connection is checked out
CleanupStart(p, tbls, sizes, softs, limit) ==
    /\ pc[p] \in {"idle", "done"}
    /\ calls[p] < limit
    /\ calls' = [calls EXCEPT ![p] = @ + 1]
    /\ \E t \in tbls, d \in 0..MaxDays, b \in sizes, s \in softs :
          /\ table_name' = [table_name EXCEPT ![p] = t]
          /\ cutoff_date' = [cutoff_date EXCEPT ![p] = now - d]
          /\ batch_size' = [batch_size EXCEPT ![p] = b]
          /\ use_soft_delete' = [use_soft_delete EXCEPT ![p] = s]
    /\ total_processed' = [total_processed EXCEPT ![p] = 0]
    /\ checked_out' = checked_out + 1
    /\ pc' = [pc EXCEPT ![p] = "count"]
    /\ total_count' = [total_count EXCEPT ![p] = 0]
    /\ outcome' = [outcome EXCEPT ![p] = "none"]
    /\ rowsAtStart' = [rowsAtStart EXCEPT ![p] = rows]
    /\ touched' = [touched EXCEPT ![p] = {}]
    /\ batches' = [batches EXCEPT ![p] = 0]
    /\ maxBatch' = [maxBatch EXCEPT ![p] = 0]
    /\ writers' = [writers EXCEPT ![p] = {}]
    /\ statements' = [statements EXCEPT ![p] = 0]
    /\ recounts' = [recounts EXCEPT ![p] = 0]
    /\ prevRun' = [prevRun EXCEPT ![p] = lastRun]
    /\ UNCHANGED << forgetVars, faults, retired, now, rows, nextId,
                    no_user_id, lastRun >>
    /\ result' = [result EXCEPT ![p] = NoResult]
    /\ UNCHANGED coreVars

\* return stats; the connection is closed
CleanupReturn(p) ==
    /\ pc' = [pc EXCEPT ![p] = "done"]
    /\ outcome' = [outcome EXCEPT ![p] = "returned"]
    /\ checked_out' = Close(checked_out)

\* the count query, then the first test of the loop condition
CleanupCount(p) ==
    /\ pc[p] = "count"
    /\ LET n == CountEligible(rows, table_name[p], cutoff_date[p]) IN
          /\ total_count' = [total_count EXCEPT ![p] = n]
          /\ recounts' = [recounts EXCEPT ![p] = @ + 1]
          /\ IF LoopContinues(total_processed[p], n)
             THEN /\ pc' = [pc EXCEPT ![p] = "loop"]
                  /\ UNCHANGED << outcome, checked_out, lastRun >>
             ELSE /\ CleanupReturn(p)
                  /\ lastRun' = IF writers[p] = {} THEN ThisRun(p) ELSE NoRun
    /\ UNCHANGED << forgetVars, faults, retired, now, rows, nextId,
                    no_user_id, calls, table_name,
                    cutoff_date, batch_size, use_soft_delete, total_processed,
                    touched, batches, maxBatch, rowsAtStart, writers,
                    statements, prevRun >>
    /\ UNCHANGED extraVars

\* one iteration of the batch loop: the UPDATE or DELETE, the rowcount test,
\* the commit, and the next test of the loop condition
CleanupBatch(p) ==
    /\ pc[p] = "loop"
    /\ LET cand == IF use_soft_delete[p]
                   THEN SoftEligible(rows, table_name[p], cutoff_date[p])
                   ELSE HardEligible(rows, table_name[p], cutoff_date[p])
       IN \E S \in Limit(cand, batch_size[p]) :
          LET batch_processed == Cardinality(S) IN
          /\ statements' = [statements EXCEPT ![p] = @ + 1]
          /\ IF batch_processed = 0
             THEN /\ CleanupReturn(p)
                  /\ lastRun' = IF writers[p] = {} THEN ThisRun(p) ELSE NoRun
                  /\ UNCHANGED << rows, total_processed, touched, batches,
                                  maxBatch, writers >>
             ELSE /\ rows' = IF use_soft_delete[p]
                             THEN SoftDelete(rows, S, now)
                             ELSE HardDelete(rows, S)
                  /\ total_processed' =
                        [total_processed EXCEPT ![p] = @ + batch_processed]
                  /\ touched' = [touched EXCEPT ![p] = @ \cup Ids(S)]
                  /\ batches' = [batches EXCEPT ![p] = @ + 1]
                  /\ maxBatch' = [maxBatch EXCEPT ![p] =
                                    IF batch_processed > @
                                    THEN batch_processed ELSE @]
                  /\ writers' = NoteWrite(p, S)
                  /\ IF LoopContinues(total_processed[p] + batch_processed,
                                      total_count[p])
                     THEN /\ UNCHANGED << pc, outcome, checked_out >>
                          /\ lastRun' = NoRun
                     ELSE /\ CleanupReturn(p)
                          /\ lastRun' = IF writers[p] = {} THEN ThisRun(p)
                                        ELSE NoRun
    /\ UNCHANGED << forgetVars, faults, retired, now, nextId, no_user_id,
                    calls, table_name, cutoff_date,
                    batch_size, use_soft_delete, total_count, rowsAtStart,
                    recounts, prevRun >>
    /\ UNCHANGED extraVars

\* a statement raises (SQLAlchemyError): get_connection rolls back the open
\* transaction, which holds no change, closes the connection and re-raises
CleanupFail(p) ==
    /\ pc[p] \in {"count", "loop"}
    /\ pc' = [pc EXCEPT ![p] = "done"]
    /\ outcome' = [outcome EXCEPT ![p] = "raised"]
    /\ checked_out' = Close(checked_out)
    /\ statements' = [statements EXCEPT ![p] =
                         IF pc[p] = "loop" THEN @ + 1 ELSE @]
    /\ UNCHANGED << forgetVars, faults, retired, now, rows, nextId,
                    no_user_id, calls, cleanupVars,
                    touched, batches, maxBatch, rowsAtStart, writers,
                    recounts, lastRun, prevRun >>
    /\ UNCHANGED extraVars

\* ------------------------------------------------------------ forget_user
ForgetEligibleAnyUser(R, t, u) ==
    { r \in InTable(R, t) : r.deleted_at = NULL }

\* SELECT id ... WHERE user_id = :user_id AND deleted_at IS NULL
ForgetEligible(R, t, u) ==
    { r \in InTable(R, t) : r.user_id = u /\ r.deleted_at = NULL }

LoopOffByOne(deleted, count) == deleted + 1 < count

\* while total_deleted < records_count
ForgetLoopContinues(deleted, count) == deleted < count

\* stats["tables_processed"].append(table_stats);
\* stats["total_records_affected"] += total_deleted
AddTableStats(st, t, n) ==
    [st EXCEPT !.tables_processed =
                   Append(@, [table_name |-> t, records_affected |-> n]),
               !.total_records_affected = @ + n]

ColumnAlways(t, missing) == TRUE

\* the information_schema.columns query returns a row for user_id
HasUserIdColumn(t, missing) == t \notin missing

OuterExceptKeeps(st) == st

\* except Exception: stats["error"] = str(e); stats["success"] = False; raise
OuterExcept(st) == [st EXCEPT !.success = "false"]

\* stats, the connection checked out, and the first table of the list
ForgetStart(p, users, sizes, limit) ==
    /\ pc[p] \in {"idle", "done"}
    /\ calls[p] < limit
    /\ calls' = [calls EXCEPT ![p] = @ + 1]
    /\ \E u \in users, b \in sizes :
          /\ user_id' = [user_id EXCEPT ![p] = u]
          /\ batch_size' = [batch_size EXCEPT ![p] = b]
    /\ stats' = [stats EXCEPT ![p] = NoStats]
    /\ checked_out' = checked_out + 1
    /\ tblIdx' = [tblIdx EXCEPT ![p] = 1]
    /\ records_count' = [records_count EXCEPT ![p] = 0]
    /\ total_deleted' = [total_deleted EXCEPT ![p] = 0]
    /\ aborted' = [aborted EXCEPT ![p] = FALSE]
    /\ failed' = [failed EXCEPT ![p] = {}]
    /\ faults' = [faults EXCEPT ![p] = 0]
    /\ pc' = [pc EXCEPT ![p] = "check"]
    /\ outcome' = [outcome EXCEPT ![p] = "none"]
    /\ rowsAtStart' = [rowsAtStart EXCEPT ![p] = rows]
    /\ touched' = [touched EXCEPT ![p] = {}]
    /\ batches' = [batches EXCEPT ![p] = 0]
    /\ maxBatch' = [maxBatch EXCEPT ![p] = 0]
    /\ writers' = [writers EXCEPT ![p] = {}]
    /\ statements' = [statements EXCEPT ![p] = 0]
    /\ UNCHANGED << now, rows, nextId, retired, no_user_id, table_name,
                    cutoff_date, use_soft_delete, total_count,
                    total_processed, recounts, lastRun, prevRun >>
    /\ result' = [result EXCEPT ![p] = NoResult]
    /\ UNCHANGED coreVars

\* engine.connect() raises before any table is visited: the outer handler
\* marks the report failed and re-raises; no connection was checked out
ForgetConnectFail(p, users, limit) ==
    /\ pc[p] \in {"idle", "done"}
    /\ calls[p] < limit
    /\ calls' = [calls EXCEPT ![p] = @ + 1]
    /\ \E u \in users : user_id' = [user_id EXCEPT ![p] = u]
    /\ stats' = [stats EXCEPT ![p] = OuterExcept(NoStats)]
    /\ tblIdx' = [tblIdx EXCEPT ![p] = 1]
    /\ records_count' = [records_count EXCEPT ![p] = 0]
    /\ total_deleted' = [total_deleted EXCEPT ![p] = 0]
    /\ aborted' = [aborted EXCEPT ![p] = FALSE]
    /\ failed' = [failed EXCEPT ![p] = {}]
    /\ faults' = [faults EXCEPT ![p] = 0]
    /\ pc' = [pc EXCEPT ![p] = "done"]
    /\ outcome' = [outcome EXCEPT ![p] = "raised"]
    /\ rowsAtStart' = [rowsAtStart EXCEPT ![p] = rows]
    /\ touched' = [touched EXCEPT ![p] = {}]
    /\ batches' = [batches EXCEPT ![p] = 0]
    /\ maxBatch' = [maxBatch EXCEPT ![p] = 0]
    /\ writers' = [writers EXCEPT ![p] = {}]
    /\ statements' = [statements EXCEPT ![p] = 0]
    /\ UNCHANGED << now, rows, nextId, retired, no_user_id, checked_out,
                    cleanupVars, recounts, lastRun, prevRun >>
    /\ result' = [result EXCEPT ![p] = NoResult]
    /\ UNCHANGED coreVars

\* the end of one iteration of `for table_name in tables_to_clean` with the
\* report st: the next table, or after the last one the statements that
\* follow the loop
ForgetAdvance(p, st) ==
    /\ stats' = [stats EXCEPT ![p] = st]
    /\ UNCHANGED << outcome, checked_out >>
    /\ IF tblIdx[p] < Len(tables_to_clean)
       THEN /\ tblIdx' = [tblIdx EXCEPT ![p] = @ + 1]
            /\ pc' = [pc EXCEPT ![p] = "check"]
       ELSE /\ pc' = [pc EXCEPT ![p] = "finalize"]
            /\ UNCHANGED tblIdx

\* stats["completed_at"], stats["success"] = True, return stats, and the
\* connection closed on the way out of the with block
ForgetReturn(p) ==
    /\ pc[p] = "finalize"
    /\ stats' = [stats EXCEPT ![p] = [@ EXCEPT !.success = "true"]]
    /\ pc' = [pc EXCEPT ![p] = "done"]
    /\ outcome' = [outcome EXCEPT ![p] = "returned"]
    /\ checked_out' = Close(checked_out)
    /\ UNCHANGED << now, rows, nextId, retired, no_user_id, calls,
                    cleanupVars, user_id, tblIdx, records_count,
                    total_deleted, aborted, failed, histVars >>
    /\ UNCHANGED extraVars

\* a statement after stats["success"] = True raises while the report is
\* assembled: get_connection rolls back and closes, the outer handler marks
\* the report failed and re-raises
ForgetFinalizeFail(p) ==
    /\ pc[p] = "finalize"
    /\ stats' = [stats EXCEPT ![p] =
                    OuterExcept([@ EXCEPT !.success = "true"])]
    /\ pc' = [pc EXCEPT ![p] = "done"]
    /\ outcome' = [outcome EXCEPT ![p] = "raised"]
    /\ checked_out' = Close(checked_out)
    /\ UNCHANGED << now, rows, nextId, retired, no_user_id, calls,
                    cleanupVars, user_id, tblIdx, records_count,
                    total_deleted, aborted, failed, histVars >>
    /\ UNCHANGED extraVars

\* the information_schema query: a table without user_id is skipped
ForgetCheck(p) ==
    /\ pc[p] = "check"
    /\ ~aborted[p]
    /\ IF HasUserIdColumn(tables_to_clean[tblIdx[p]], no_user_id)
       THEN /\ pc' = [pc EXCEPT ![p] = "fcount"]
            /\ UNCHANGED << tblIdx, stats, outcome, checked_out >>
       ELSE ForgetAdvance(p, stats[p])
    /\ UNCHANGED << now, rows, nextId, retired, no_user_id, calls,
                    cleanupVars, user_id, records_count, total_deleted,
                    aborted, failed, histVars >>
    /\ UNCHANGED extraVars

\* the count of the user's live rows: none, and the table is skipped
ForgetCount(p) ==
    /\ pc[p] = "fcount"
    /\ ~aborted[p]
    /\ LET n == Cardinality(ForgetEligible(rows, tables_to_clean[tblIdx[p]],
                                           user_id[p]))
       IN /\ records_count' = [records_count EXCEPT ![p] = n]
          /\ total_deleted' = [total_deleted EXCEPT ![p] = 0]
          /\ IF n = 0
             THEN ForgetAdvance(p, stats[p])
             ELSE /\ pc' = [pc EXCEPT ![p] = "floop"]
                  /\ UNCHANGED << tblIdx, stats, outcome, checked_out >>
    /\ UNCHANGED << now, rows, nextId, retired, no_user_id, calls,
                    cleanupVars, user_id, aborted, failed, histVars >>
    /\ UNCHANGED extraVars

\* one iteration of the batch loop of one table: the UPDATE, the rowcount
\* test, the commit, the next test of the loop condition and, when the loop
\* ends, the table's entry in the report
ForgetBatch(p) ==
    /\ pc[p] = "floop"
    /\ ~aborted[p]
    /\ LET t == tables_to_clean[tblIdx[p]] IN
       \E S \in Limit(ForgetEligible(rows, t, user_id[p]), batch_size[p]) :
          LET batch_deleted == Cardinality(S) IN
          /\ statements' = [statements EXCEPT ![p] = @ + 1]
          /\ IF batch_deleted = 0
             THEN /\ ForgetAdvance(p, AddTableStats(stats[p], t,
                                                    total_deleted[p]))
                  /\ UNCHANGED << rows, total_deleted, touched, batches,
                                  maxBatch, writers, lastRun >>
             ELSE /\ rows' = SoftDelete(rows, S, now)
                  /\ total_deleted' =
                        [total_deleted EXCEPT ![p] = @ + batch_deleted]
                  /\ touched' = [touched EXCEPT ![p] = @ \cup Ids(S)]
                  /\ batches' = [batches EXCEPT ![p] = @ + 1]
                  /\ maxBatch' = [maxBatch EXCEPT ![p] =
                                    IF batch_deleted > @
                                    THEN batch_deleted ELSE @]
                  /\ writers' = NoteWrite(p, S)
                  /\ lastRun' = NoRun
                  /\ IF ForgetLoopContinues(total_deleted[p] + batch_deleted,
                                            records_count[p])
                     THEN UNCHANGED << pc, tblIdx, stats, outcome,
                                       checked_out >>
                     ELSE ForgetAdvance(p,
                             AddTableStats(stats[p], t,
                                           total_deleted[p] + batch_deleted))
    /\ UNCHANGED << faults, now, nextId, retired, no_user_id, calls,
                    cleanupVars,
                    user_id, records_count, aborted, failed, rowsAtStart,
                    recounts, prevRun >>
    /\ UNCHANGED extraVars

\* a statement of the table raises: the inner handler logs and continues
\* with the next table, without a rollback, so that a store which aborts the
\* transaction on an error (PostgreSQL) fails every later statement too
ForgetFail(p) ==
    /\ pc[p] \in {"check", "fcount", "floop"}
    /\ aborted[p] \/ faults[p] < MaxFaults
    /\ faults' = [faults EXCEPT ![p] = IF aborted[p] THEN @ ELSE @ + 1]
    /\ failed' = [failed EXCEPT ![p] = @ \cup {tables_to_clean[tblIdx[p]]}]
    /\ \E a \in BOOLEAN : aborted' = [aborted EXCEPT ![p] = @ \/ a]
    /\ statements' = [statements EXCEPT ![p] =
                         IF pc[p] = "floop" THEN @ + 1 ELSE @]
    /\ ForgetAdvance(p, stats[p])
    /\ UNCHANGED << now, rows, nextId, retired, no_user_id, calls,
                    cleanupVars, user_id, records_count, total_deleted,
                    touched, batches, maxBatch, rowsAtStart, writers,
                    recounts, lastRun, prevRun >>
    /\ UNCHANGED extraVars

\* ---------------------------------------------- execute_sql, health_check
\* the first part of every call: the history of the call starts empty
BeginCall(p, limit) ==
    /\ pc[p] \in {"idle", "done"}
    /\ calls[p] < limit
    /\ calls' = [calls EXCEPT ![p] = @ + 1]
    /\ result' = [result EXCEPT ![p] = NoResult]
    /\ rowsAtStart' = [rowsAtStart EXCEPT ![p] = rows]
    /\ touched' = [touched EXCEPT ![p] = {}]
    /\ batches' = [batches EXCEPT ![p] = 0]
    /\ maxBatch' = [maxBatch EXCEPT ![p] = 0]
    /\ writers' = [writers EXCEPT ![p] = {}]
    /\ statements' = [statements EXCEPT ![p] = 0]
    /\ UNCHANGED << now, rows, nextId, retired, no_user_id, cleanupVars,
                    forgetVars, faults, recounts, lastRun, prevRun,
                    coreVars >>

\* cleanup_old_records: engine.connect() raises, nothing was checked out
CleanupConnectFail(p, limit) ==
    /\ BeginCall(p, limit)
    /\ pc' = [pc EXCEPT ![p] = "done"]
    /\ outcome' = [outcome EXCEPT ![p] = "raised"]
    /\ UNCHANGED checked_out

\* execute_sql: with self.get_connection() as conn
ExecStart(p, limit) ==
    /\ BeginCall(p, limit)
    /\ checked_out' = checked_out + 1
    /\ pc' = [pc EXCEPT ![p] = "exec"]
    /\ outcome' = [outcome EXCEPT ![p] = "none"]

\* execute_sql: engine.connect() raises, logged and re-raised
ExecConnectFail(p, limit) ==
    /\ BeginCall(p, limit)
    /\ pc' = [pc EXCEPT ![p] = "done"]
    /\ outcome' = [outcome EXCEPT ![p] = "raised"]
    /\ UNCHANGED checked_out

\* connection.close() on a connection whose transaction was begun by the
\* first statement and never committed: the transaction is rolled back, the
\* store keeps the committed rows
Release(committed, pending) == committed

\* [dict(row._mapping) for row in result]
RowsResult(S) == [kind |-> "rows", n |-> Cardinality(S)]

\* [{"affected_rows": result.rowcount}]
AffectedResult(S) == [kind |-> "affected", affected_rows |-> Cardinality(S)]

\* execute_sql: conn.execute(text(sql), params), the result built from it,
\* the return and the connection closed; the statement is either a SELECT
\* over a table or an UPDATE that sets deleted_at on the table's live rows
ExecStatement(p, tbls) ==
    /\ pc[p] = "exec"
    /\ \E t \in tbls, modifying \in BOOLEAN :
          LET S == { r \in InTable(rows, t) : r.deleted_at = NULL }
              pending == SoftDelete(rows, S, now)
          IN IF modifying
             THEN /\ result' = [result EXCEPT ![p] = AffectedResult(S)]
                  /\ touched' = [touched EXCEPT ![p] = Ids(S)]
                  /\ rows' = Release(rows, pending)
             ELSE /\ result' = [result EXCEPT ![p] =
                                  RowsResult(InTable(rows, t))]
                  /\ UNCHANGED << touched, rows >>
    /\ statements' = [statements EXCEPT ![p] = @ + 1]
    /\ pc' = [pc EXCEPT ![p] = "done"]
    /\ outcome' = [outcome EXCEPT ![p] = "returned"]
    /\ checked_out' = Close(checked_out)
    /\ UNCHANGED << now, nextId, retired, no_user_id, calls, cleanupVars,
                    forgetVars, faults, batches, maxBatch, rowsAtStart,
                    writers, recounts, lastRun, prevRun, coreVars >>

\* execute_sql: the statement raises; rollback, close, log and re-raise
ExecFail(p) ==
    /\ pc[p] = "exec"
    /\ statements' = [statements EXCEPT ![p] = @ + 1]
    /\ pc' = [pc EXCEPT ![p] = "done"]
    /\ outcome' = [outcome EXCEPT ![p] = "raised"]
    /\ checked_out' = Close(checked_out)
    /\ UNCHANGED << now, rows, nextId, retired, no_user_id, calls,
                    cleanupVars, forgetVars, faults, touched, batches,
                    maxBatch, rowsAtStart, writers, recounts, lastRun,
                    prevRun, extraVars >>

\* the values the probe's first column can hold
ProbeValues == {0, 1}

HealthyAlways(v) == "healthy"

\* "healthy" if row[0] == 1 else "unhealthy"
HealthStatus(v) == IF v = 1 THEN "healthy" ELSE "unhealthy"

\* the dictionary health_check returns; error is the exception it caught
HealthResult(status, error, v) ==
    [kind |-> "health", status |-> status, error |-> error, value |-> v]

\* health_check: with self.get_connection() as conn
HealthStart(p, limit) ==
    /\ BeginCall(p, limit)
    /\ checked_out' = checked_out + 1
    /\ pc' = [pc EXCEPT ![p] = "probe"]
    /\ outcome' = [outcome EXCEPT ![p] = "none"]

\* health_check: engine.connect() raises; except Exception returns unhealthy
HealthConnectFail(p, limit) ==
    /\ pc[p] \in {"idle", "done"}
    /\ calls[p] < limit
    /\ calls' = [calls EXCEPT ![p] = @ + 1]
    /\ result' = [result EXCEPT ![p] =
                    HealthResult("unhealthy", "connect", NULL)]
    /\ rowsAtStart' = [rowsAtStart EXCEPT ![p] = rows]
    /\ touched' = [touched EXCEPT ![p] = {}]
    /\ batches' = [batches EXCEPT ![p] = 0]
    /\ maxBatch' = [maxBatch EXCEPT ![p] = 0]
    /\ writers' = [writers EXCEPT ![p] = {}]
    /\ statements' = [statements EXCEPT ![p] = 0]
    /\ pc' = [pc EXCEPT ![p] = "done"]
    /\ outcome' = [outcome EXCEPT ![p] = "returned"]
    /\ UNCHANGED << now, rows, nextId, retired, no_user_id, checked_out,
                    cleanupVars, forgetVars, faults, recounts, lastRun,
                    prevRun, coreVars >>

\* health_check: SELECT 1 as health_check, fetchone, the status from row[0],
\* the return and the connection closed
HealthProbe(p) ==
    /\ pc[p] = "probe"
    /\ \E v \in ProbeValues :
          result' = [result EXCEPT ![p] =
                       HealthResult(HealthStatus(v), "none", v)]
    /\ pc' = [pc EXCEPT ![p] = "done"]
    /\ outcome' = [outcome EXCEPT ![p] = "returned"]
    /\ checked_out' = Close(checked_out)
    /\ UNCHANGED << now, rows, nextId, retired, no_user_id, calls,
                    cleanupVars, forgetVars, histVars, coreVars >>

\* health_check: the probe or fetchone raises (also row is None); rollback
\* and close in get_connection, then except Exception returns unhealthy
HealthProbeFail(p) ==
    /\ pc[p] = "probe"
    /\ result' = [result EXCEPT ![p] =
                    HealthResult("unhealthy", "probe", NULL)]
    /\ pc' = [pc EXCEPT ![p] = "done"]
    /\ outcome' = [outcome EXCEPT ![p] = "returned"]
    /\ checked_out' = Close(checked_out)
    /\ UNCHANGED << now, rows, nextId, retired, no_user_id, calls,
                    cleanupVars, forgetVars, histVars, coreVars >>

\* ------------------------------------------------ JOJIAICore.process_data
\* a text is a sequence of characters; an item carries the name of its
\* Python type, its text (strings) and its number (int, bool as 0/1, float
\* in tenths)
Chars == {"a", "B"}
Texts == UNION { [1..n -> Chars] : n \in 0..MaxStr }
StrItem(s) == [kind |-> "str", text |-> s, num |-> 0]
NumItem(k, n) == [kind |-> k, text |-> << >>, num |-> n]
Items ==
    { StrItem(s) : s \in Texts }
    \cup { NumItem("int", n) : n \in (0 - 1)..MaxInt }
    \cup { NumItem("float", n) : n \in {5, 31} }
    \cup { NumItem("bool", n) : n \in {0, 1} }
    \cup { NumItem("NoneType", 0), NumItem("list", 0) }
Inputs == UNION { [1..n -> Items] : n \in 0..MaxLen }

RECURSIVE ProcessItems(_)

\* str.upper() on one character
UpperChar(c) == CASE c = "a" -> "A" [] c = "b" -> "B" [] OTHER -> c

\* item.upper()
Upper(s) == [j \in 1..Len(s) |-> UpperChar(s[j])]

\* str(item) for the items that are neither str nor int nor float
StrOf(item) ==
    CASE item.kind = "NoneType" -> << "N", "o", "n", "e" >>
      [] item.kind = "list" -> << "[", "]" >>
      [] OTHER -> << "?" >>

KeepItem(item) == item

\* the body of the for loop: bool is a subclass of int, so isinstance(item,
\* (int, float)) holds for True and False, and True * 2 is the int 2
ProcessItem(item) ==
    IF item.kind = "str"
    THEN StrItem(Upper(item.text))
    ELSE IF item.kind \in {"int", "bool", "float"}
         THEN NumItem(IF item.kind = "float" THEN "float" ELSE "int",
                      item.num * 2)
         ELSE StrItem(StrOf(item))

\* processed = []; for item in data: processed.append(...)
ProcessItems(d) ==
    IF d = << >>
    THEN << >>
    ELSE << ProcessItem(Head(d)) >> \o ProcessItems(Tail(d))

\* process_data(data): ValueError on an empty list, else the processed list
ProcessData ==
    /\ core_outcome = "none"
    /\ IF Len(data) = 0
       THEN /\ core_outcome' = "raised"
            /\ UNCHANGED items_out
       ELSE /\ items_out' = ProcessItems(data)
            /\ core_outcome' = "returned"
    /\ UNCHANGED << now, rows, nextId, retired, no_user_id, checked_out, pc,
                    outcome, calls, cleanupVars, forgetVars, histVars,
                    result, data >>

\* ------------------------------------------------------------------- Spec
CleanupTables == {"user_sessions"}
CleanupUsers == {"u1"}
BatchSizes == 1..MaxBatch

Next ==
    \/ Tick
    \/ Insert(CleanupTables, CleanupUsers, MaxRows)
    \/ Retire(CleanupTables)
    \/ CleanupStart("c1", CleanupTables, BatchSizes, BOOLEAN, MaxCalls)
    \/ CleanupCount("c1")
    \/ CleanupBatch("c1")
    \/ CleanupFail("c1")

Spec == Init /\ [][Next]_vars

\* the call is synchronous code: a statement that can execute does
FairSpec ==
    /\ Spec
    /\ WF_vars(CleanupCount("c1"))
    /\ WF_vars(CleanupBatch("c1"))

\* the same client, called with any batch_size, also zero and negative ones
AnyBatchSizes == (0 - 1)..MaxBatch

NextAnyBatch ==
    \/ Tick
    \/ Insert(CleanupTables, CleanupUsers, MaxRows)
    \/ Retire(CleanupTables)
    \/ CleanupStart("c1", CleanupTables, AnyBatchSizes, BOOLEAN, MaxCalls)
    \/ CleanupCount("c1")
    \/ CleanupBatch("c1")
    \/ CleanupFail("c1")

SpecAnyBatch == Init /\ [][NextAnyBatch]_vars

\* two clients run soft-delete cleanups of the same table at the same time
NextConcurrent ==
    \/ Tick
    \/ Insert(CleanupTables, CleanupUsers, MaxRows)
    \/ \E p \in Callers :
          CleanupStart(p, CleanupTables, BatchSizes, {TRUE}, MaxOverlap)
    \/ \E p \in Callers : CleanupCount(p)
    \/ \E p \in Callers : CleanupBatch(p)
    \/ \E p \in Callers : CleanupFail(p)

SpecConcurrent == Init /\ [][NextConcurrent]_vars

FairConcurrent ==
    /\ SpecConcurrent
    /\ \A p \in Callers : WF_vars(CleanupCount(p)) /\ WF_vars(CleanupBatch(p))

\* forget_user over the six tables
ForgetTables == {"user_sessions", "user_memory"}

NextForget ==
    \/ Insert(ForgetTables, Users, MaxRows)
    \/ ForgetStart("f1", Users, BatchSizes, MaxOverlap)
    \/ ForgetCheck("f1")
    \/ ForgetCount("f1")
    \/ ForgetBatch("f1")
    \/ ForgetFail("f1")
    \/ ForgetReturn("f1")
    \/ ForgetFinalizeFail("f1")
    \/ ForgetConnectFail("f1", Users, MaxOverlap)

SpecForget == InitForget /\ [][NextForget]_vars

\* forget_user next to a soft-delete cleanup of one of its tables
NextMixed ==
    \/ Tick
    \/ Insert(CleanupTables, Users, MaxMixedRows)
    \/ ForgetStart("f1", Users, BatchSizes, MaxOverlap)
    \/ ForgetCheck("f1")
    \/ ForgetCount("f1")
    \/ ForgetBatch("f1")
    \/ ForgetFail("f1")
    \/ ForgetReturn("f1")
    \/ ForgetFinalizeFail("f1")
    \/ ForgetConnectFail("f1", Users, MaxOverlap)
    \/ CleanupStart("c1", CleanupTables, BatchSizes, {TRUE}, MaxOverlap)
    \/ CleanupCount("c1")
    \/ CleanupBatch("c1")
    \/ CleanupFail("c1")

SpecMixed == Init /\ [][NextMixed]_vars

\* one client that makes MaxCalls calls of the four public methods, each of
\* which may fail at any of its statements
NextCalls ==
    \/ Tick
    \/ Insert(CleanupTables, CleanupUsers, MaxMixedRows)
    \/ CleanupStart("c1", CleanupTables, BatchSizes, BOOLEAN, MaxCalls)
    \/ CleanupConnectFail("c1", MaxCalls)
    \/ CleanupCount("c1")
    \/ CleanupBatch("c1")
    \/ CleanupFail("c1")
    \/ ForgetStart("c1", CleanupUsers, BatchSizes, MaxCalls)
    \/ ForgetConnectFail("c1", CleanupUsers, MaxCalls)
    \/ ForgetCheck("c1")
    \/ ForgetCount("c1")
    \/ ForgetBatch("c1")
    \/ ForgetFail("c1")
    \/ ForgetReturn("c1")
    \/ ForgetFinalizeFail("c1")
    \/ ExecStart("c1", MaxCalls)
    \/ ExecConnectFail("c1", MaxCalls)
    \/ ExecStatement("c1", CleanupTables)
    \/ ExecFail("c1")
    \/ HealthStart("c1", MaxCalls)
    \/ HealthConnectFail("c1", MaxCalls)
    \/ HealthProbe("c1")
    \/ HealthProbeFail("c1")

SpecCalls == Init /\ [][NextCalls]_vars

\* process_data applied once to every list of at most MaxLen items
InitCore == InitState /\ no_user_id = {} /\ data \in Inputs

NextCore == ProcessData

SpecCore == InitCore /\ [][NextCore]_vars

\* ----------------------------------------------------------------- claims
TypeOK ==
    /\ now \in 0..MaxTime
    /\ nextId \in 1..(MaxRows + 1)
    /\ checked_out \in 0..Cardinality(Procs)
    /\ \A r \in rows : r.id \in 1..MaxRows /\ r.tbl \in Tables

Returned(p) == pc[p] = "done" /\ outcome[p] = "returned"

\* no other client wrote a row since p's call started
Quiet(p) == writers[p] = {}

\* the rows of p's table that were old and live when p's call started
OldLiveAtStart(p) ==
    { r \in rowsAtStart[p] : /\ r.tbl = table_name[p]
                              /\ r.created_at < cutoff_date[p]
                              /\ r.deleted_at = NULL }

\* C1: when cleanup_old_records returns on a table no other client modifies
\* (batch_size >= 1, soft or hard delete), no row left in the table has
\* created_at < cutoff and deleted_at IS NULL.
C1_NoOldLiveRowRemains ==
    \A p \in Callers :
        (Returned(p) /\ Quiet(p) /\ batch_size[p] >= 1)
        => \A r \in rows :
              r.tbl = table_name[p]
              => ~(r.created_at < cutoff_date[p] /\ r.deleted_at = NULL)

\* C2: a cleanup that follows an undisturbed cleanup with the same table,
\* cutoff, batch_size and use_soft_delete, no write in between, affects zero
\* rows: it reports total_processed = 0 and leaves the table as it found it.
C2_SecondRunIsNoOp ==
    \A p \in Callers :
        (Returned(p) /\ Quiet(p) /\ prevRun[p] = ThisRun(p))
        => (total_processed[p] = 0 /\ rows = rowsAtStart[p])

\* C3: during and after a soft-delete cleanup that no other client disturbs,
\* the table holds exactly the ids it held when the call started.
C3_SoftNeverRemoves ==
    \A p \in Callers :
        (pc[p] # "idle" /\ use_soft_delete[p] /\ Quiet(p))
        => Ids(InTable(rows, table_name[p]))
              = Ids(InTable(rowsAtStart[p], table_name[p]))

C3_Witness ==
    \E p \in Callers :
        /\ Returned(p) /\ use_soft_delete[p] /\ Quiet(p)
        /\ batches[p] >= 2

\* C4: across interleaved soft-delete cleanups and forget_user calls a row's
\* deleted_at is set at most once: no step changes a deleted_at that is not
\* NULL, neither to another timestamp nor back to NULL.
C4_DeletedAtSetOnce ==
    [][\A r \in rows :
          r.deleted_at # NULL
          => \A r2 \in rows' : r2.id = r.id => r2.deleted_at = r.deleted_at]_vars

C4_Witness ==
    /\ touched["c1"] # {} /\ touched["f1"] # {}
    /\ pc["f1"] \notin {"idle", "done"}
    /\ << "c1", calls["c1"] >> \in writers["f1"]
    /\ \E r \in rows : r.deleted_at # NULL /\ r.deleted_at < now
    /\ \E r \in rows : r.deleted_at = now

\* C5: in one cleanup run the running total never decreases and always
\* equals the number of distinct rows the run has soft- or hard-deleted.
C5_NoDoubleCount ==
    /\ [](\A p \in Callers : total_processed[p] = Cardinality(touched[p]))
    /\ [][\A p \in Callers :
             pc[p] = "loop" => total_processed'[p] >= total_processed[p]]_vars

C5_Witness ==
    \E p \in Callers :
        /\ Returned(p) /\ batches[p] >= 2 /\ total_processed[p] = MaxRows
        /\ ~use_soft_delete[p]

\* C6: an undisturbed soft-delete cleanup soft-deletes exactly the rows that
\* were old and live at its start, at most batch_size per batch and so in at
\* most ceil(N / batch_size) row-affecting batches, and leaves every other
\* row (in particular every row with created_at >= cutoff) as it was.
C6_SoftDeletesExactlyTheOld ==
    \A p \in Callers :
        (pc[p] # "idle" /\ use_soft_delete[p])
        => /\ maxBatch[p] <= batch_size[p]
           /\ (Returned(p) /\ Quiet(p))
               => LET old == OldLiveAtStart(p) IN
                  /\ touched[p] = Ids(old)
                  /\ \A r \in rows : r.id \in Ids(old) => r.deleted_at # NULL
                  /\ { r \in rows : r.id \notin Ids(old) } = rowsAtStart[p] \ old
                  /\ \A r \in rowsAtStart[p] :
                        (r.tbl = table_name[p] /\ r.created_at >= cutoff_date[p])
                        => r \in rows
                  /\ batches[p] * batch_size[p]
                        < Cardinality(old) + batch_size[p]

C6_Witness ==
    \E p \in Callers :
        /\ Returned(p) /\ Quiet(p) /\ use_soft_delete[p]
        /\ batch_size[p] = 2 /\ batches[p] = 2
        /\ Cardinality(OldLiveAtStart(p)) = 3

\* C7: after an undisturbed forget_user call with batch_size >= 1 returns
\* with no per-table failure, no table of the list that has a user_id column
\* holds a live row of the user.
C7_NoLiveRowOfUserRemains ==
    \A p \in Forgetters :
        (Returned(p) /\ failed[p] = {} /\ Quiet(p) /\ batch_size[p] >= 1)
        => \A r \in rows :
              r.tbl \in (Tables \ no_user_id)
              => ~(r.user_id = user_id[p] /\ r.deleted_at = NULL)

C7_Witness ==
    \E p \in Forgetters :
        /\ Returned(p) /\ failed[p] = {} /\ Quiet(p)
        /\ batches[p] >= 2
        /\ Cardinality({ r.tbl : r \in { x \in rows : x.id \in touched[p] } }) = 2
        /\ \E r \in rows : r.user_id # user_id[p] /\ r.deleted_at = NULL

\* C8: two soft-delete cleanups of one table that run side by side, no other
\* client writing, both terminate; afterwards no old row of the table is
\* live, no row was soft-deleted by both, every row that was old and live
\* when a run started was soft-deleted by one of them, and the two totals
\* add up to the number of rows soft-deleted.
C8_ConcurrentRunsConverge ==
    /\ []((/\ \A p \in Callers : Returned(p)
           /\ writers["c1"] \subseteq {<< "c2", calls["c2"] >>}
           /\ writers["c2"] \subseteq {<< "c1", calls["c1"] >>})
          => LET both == touched["c1"] \cup touched["c2"] IN
             /\ \A p \in Callers : \A r \in rows :
                   r.tbl = table_name[p]
                   => ~(r.created_at < cutoff_date[p] /\ r.deleted_at = NULL)
             /\ touched["c1"] \cap touched["c2"] = {}
             /\ \A p \in Callers : Ids(OldLiveAtStart(p)) \subseteq both
             /\ \A r \in rows : r.id \in both => r.deleted_at # NULL
             /\ total_processed["c1"] + total_processed["c2"]
                   = Cardinality(both))
    /\ \A p \in Callers : (pc[p] \in {"count", "loop"}) ~> (pc[p] = "done")

C8_Witness ==
    /\ \A p \in Callers : Returned(p) /\ touched[p] # {}
    /\ writers["c1"] = {<< "c2", calls["c2"] >>}
    /\ writers["c2"] = {<< "c1", calls["c1"] >>}
    /\ Cardinality(touched["c1"] \cup touched["c2"]) = MaxRows

\* C9: the batch loop terminates, also while other clients insert eligible
\* rows: an iteration is followed by another only if it affected rows and
\* the total is still below the count, the count is taken once, and a run
\* executes at most total_count row-affecting batches.
C9_LoopTerminates ==
    /\ [](\A p \in Callers : batches[p] <= total_count[p] /\ recounts[p] <= 1)
    /\ [][\A p \in Callers :
             /\ pc[p] = "loop" => total_count'[p] = total_count[p]
             /\ (pc'[p] = "loop" /\ statements'[p] # statements[p])
                => /\ total_processed'[p] > total_processed[p]
                   /\ total_processed'[p] < total_count[p]]_vars
    /\ \A p \in Callers : (pc[p] = "loop") ~> (pc[p] = "done")

C9_Witness ==
    \E p \in Callers :
        /\ Returned(p) /\ Ext \in writers[p]
        /\ batches[p] = total_count[p] /\ batches[p] >= 2
        /\ \E r \in rows : /\ r \notin rowsAtStart[p]
                             /\ r.tbl = table_name[p]
                             /\ r.created_at < cutoff_date[p]
                             /\ r.deleted_at = NULL

\* C10: a call with batch_size <= 0 ends with an error, having issued no
\* UPDATE or DELETE and leaving the table unchanged.
C10_NonPositiveBatchRejected ==
    \A p \in Callers :
        (pc[p] = "done" /\ batch_size[p] <= 0)
        => /\ outcome[p] = "raised"
           /\ statements[p] = 0
           /\ Quiet(p) => rows = rowsAtStart[p]

\* position of a table in the fixed list
IndexOf(t) == CHOOSE i \in 1..Len(tables_to_clean) : tables_to_clean[i] = t

\* C11: when a statement of one table fails inside forget_user and nobody else
\* writes during the call, the report that comes back has success = true and
\* every table that stands later in the list than a failed one, and has a
\* user_id column, holds no live row of the subject any more.
C11_LaterTablesStillProcessed ==
    \A p \in Forgetters :
        (Returned(p) /\ failed[p] # {} /\ Quiet(p))
        => /\ stats[p].success = "true"
           /\ \A t \in Tables \ no_user_id :
                 (\E f \in failed[p] : IndexOf(f) < IndexOf(t))
                 => ForgetEligible(rows, t, user_id[p]) = {}

\* the tables named in the report's tables_processed
ReportedTables(p) ==
    { stats[p].tables_processed[i].table_name :
        i \in 1..Len(stats[p].tables_processed) }

\* C12: forget_user never reaches the count or the update of a table that has
\* no user_id column, changes none of its rows and never lists it in
\* tables_processed; and a call that met no failure and no other writer has
\* still soft-deleted the subject's rows in every table that has the column
\* and reports each table in which it found some.
C12_TableWithoutColumnSkipped ==
    \A p \in Forgetters :
        /\ pc[p] \in {"fcount", "floop"}
              => tables_to_clean[tblIdx[p]] \notin no_user_id
        /\ ReportedTables(p) \cap no_user_id = {}
        /\ \A r \in rows : r.id \in touched[p] => r.tbl \notin no_user_id
        /\ (Returned(p) /\ failed[p] = {} /\ Quiet(p))
              => \A t \in Tables \ no_user_id :
                    /\ ForgetEligible(rows, t, user_id[p]) = {}
                    /\ ForgetEligible(rowsAtStart[p], t, user_id[p]) # {}
                          => t \in ReportedTables(p)

\* a table without the column that holds a row came before a table whose
\* rows of the subject the call then soft-deleted
C12_Witness ==
    /\ Returned("f1") /\ failed["f1"] = {} /\ Quiet("f1")
    /\ no_user_id = {"user_sessions"}
    /\ \E r \in rows : r.tbl = "user_sessions" /\ r.deleted_at = NULL
    /\ \E r \in rows : r.tbl = "user_memory" /\ r.id \in touched["f1"]
    /\ ReportedTables("f1") = {"user_memory"}

\* the subject of p's call had no live row in any table when the call started
NothingToForget(p) ==
    \A r \in rowsAtStart[p] : r.user_id = user_id[p] => r.deleted_at # NULL

\* C16: a forget_user call for a subject without a live row in any of the six
\* tables, with no other writer during the call, returns a report with
\* total_records_affected = 0 and success = true and leaves every row of
\* every table as it was.
C16_NothingToForgetIsNoOp ==
    \A p \in Forgetters :
        (Returned(p) /\ Quiet(p) /\ NothingToForget(p))
        => /\ stats[p].total_records_affected = 0
           /\ stats[p].success = "true"
           /\ rows = rowsAtStart[p]

\* such a call returned while another subject has a live row in a table
\* that has the user_id column
C16_Witness ==
    /\ Returned("f1") /\ Quiet("f1") /\ NothingToForget("f1")
    /\ \E r \in rows : /\ r.tbl \notin no_user_id
                       /\ r.user_id # user_id["f1"]
                       /\ r.deleted_at = NULL

\* C15: a forget_user call that ended with an error raised to the caller (the
\* connection could not be acquired, or a statement after the table loop
\* failed) left its report marked success = false; a report with
\* success = true exists only for a call that returned normally.
C15_OuterErrorMarksFailed ==
    \A p \in Forgetters :
        /\ outcome[p] = "raised"
              => pc[p] = "done" /\ stats[p].success = "false"
        /\ stats[p].success = "true" => Returned(p)

\* the error came while the report was assembled, after rows of the subject
\* had been soft-deleted and committed
C15_Witness ==
    /\ outcome["f1"] = "raised"
    /\ touched["f1"] # {}
    /\ stats["f1"].total_records_affected > 0

\* C18: the total_records_affected of the report a forget_user call returned
\* is the number of rows whose deleted_at the call set and committed.
C18_ReportCountsCommittedRows ==
    \A p \in Forgetters :
        Returned(p)
        => stats[p].total_records_affected = Cardinality(touched[p])

\* the clients that are inside a call: past the connect, not yet out
InCall == { p \in Procs : pc[p] \notin {"idle", "done"} }

\* C13: the number of connections checked out of the pool is at every moment
\* the number of calls in progress, one per call of execute_sql,
\* cleanup_old_records, forget_user or health_check; once every call has
\* ended, by a return or by an error, no connection is checked out.
C13_ConnectionsReleased ==
    /\ checked_out = Cardinality(InCall)
    /\ InCall = {} => checked_out = 0

\* the client made all its calls, and the last one ended with an error
\* after it had acquired its connection and run a statement
C13_Witness ==
    /\ calls["c1"] = MaxCalls
    /\ pc["c1"] = "done" /\ outcome["c1"] = "raised"
    /\ statements["c1"] > 0
    /\ checked_out = 0

\* C14: a health_check call never ends with an error raised: it returns a
\* result whose status is "healthy" when the probe ran and its first column
\* is 1 and "unhealthy" in every other case (the connect failed, the probe
\* raised, the probe returned another value).
C14_HealthCheckNeverRaises ==
    /\ [](\A p \in Procs :
            (pc[p] = "done" /\ result[p].kind = "health")
            => /\ outcome[p] = "returned"
               /\ result[p].status \in {"healthy", "unhealthy"}
               /\ result[p].status = "healthy"
                     <=> (result[p].error = "none" /\ result[p].value = 1))
    /\ [][\A p \in Procs :
            (pc[p] = "probe" /\ pc'[p] # "probe")
            => /\ outcome'[p] = "returned"
               /\ result'[p].kind = "health"]_vars

\* a probe that ran and returned a value other than 1
C14_Witness ==
    /\ pc["c1"] = "done"
    /\ result["c1"].kind = "health"
    /\ result["c1"].error = "none"
    /\ result["c1"].value # 1
    /\ result["c1"].status = "unhealthy"

\* C19: when execute_sql has run a modifying statement, returned
\* {affected_rows: N} and released its connection, with no other writer in
\* between, the rows the statement affected carry the modification in the
\* store.
C19_ModificationCommitted ==
    \A p \in Procs :
        (Returned(p) /\ result[p].kind = "affected" /\ Quiet(p))
        => \A r \in rows : r.id \in touched[p] => r.deleted_at # NULL

\* the pairs of a lower-case letter and its capital
Capital == { << "a", "A" >>, << "b", "B" >> }

\* C17: process_data returns only for a non-empty list, and then a list of
\* the same length whose i-th item is, for a str, the same text with every
\* lower-case letter replaced by its capital; for an int or a float (a bool
\* is an int and comes back as the int 0 or 2), the number plus itself with
\* float staying float; and for any other item a str holding its string
\* form; for the empty list it raises and returns nothing.
C17_ProcessData ==
    /\ core_outcome = "raised" => data = << >> /\ items_out = << >>
    /\ core_outcome = "returned"
          => /\ data # << >>
             /\ Len(items_out) = Len(data)
             /\ \A i \in 1..Len(data) :
                   LET in == data[i]
                       out == items_out[i]
                   IN CASE in.kind = "str" ->
                             /\ out.kind = "str"
                             /\ Len(out.text) = Len(in.text)
                             /\ \A j \in 1..Len(in.text) :
                                   \/ << in.text[j], out.text[j] >> \in Capital
                                   \/ /\ out.text[j] = in.text[j]
                                      /\ \A c \in Capital : c[1] # in.text[j]
                        [] in.kind \in {"int", "bool", "float"} ->
                             /\ out.kind = (IF in.kind = "float"
                                            THEN "float" ELSE "int")
                             /\ out.num = in.num + in.num
                        [] in.kind = "NoneType" ->
                             out = StrItem(<< "N", "o", "n", "e" >>)
                        [] in.kind = "list" ->
                             out = StrItem(<< "[", "]" >>)

\* a list of MaxLen items that starts with a text holding a lower-case
\* letter and ends with a float has been processed
C17_Witness ==
    /\ core_outcome = "returned"
    /\ Len(data) = MaxLen
    /\ data[1].kind = "str" /\ \E j \in 1..Len(data[1].text) :
                                  data[1].text[j] = "a"
    /\ data[MaxLen].kind = "float"
    /\ items_out[MaxLen].num = 2 * data[MaxLen].num

====
